---- MODULE Spec2Model ----
(***************************************************************************)
(* bin/enrollment-analysis.js: the enrollment analysis of a class CSV.     *)
(* The file holds two variants of the script, one after the other: the     *)
(* first (lines 1-297) has a configurable grace period, the day-count      *)
(* blacklist rule and the per-class monthly tally; the second (lines       *)
(* 299-554) hardcodes 7 days and has neither.  `variant` says which runs.  *)
(*                                                                         *)
(* A JavaScript string is a sequence of one-character strings, so that     *)
(* split, trim, match, toLowerCase, startsWith and parseInt are computed   *)
(* on the text and not assumed.                                            *)
(***************************************************************************)
EXTENDS Integers, Sequences, FiniteSets, TLC

\* Bounds of the model.
MaxRows == 2
MaxTokens == 5

----------------------------------------------------------------------------
\* JavaScript values.

\* NaN, the result of parseInt on text without a leading number; also what
\* a missing table entry (undefined) becomes in a numeric comparison.
NaN == -1000000

\* null, what getFirstClassDay returns for a month with no recorded day.
Null == -2000000

\* undefined as the value of a missing CSV column or array entry: no string
\* holds a character of more than one letter.
Undefined == <<"undefined">>

\* !s for a string-or-undefined value.
Falsy(s) == s = Undefined \/ s = <<>>

\* a > b on numbers: false when either side is NaN.
JsGt(a, b) == a # NaN /\ b # NaN /\ a > b

\* null + n: null converts to 0.
ToNumber(v) == IF v = Null THEN 0 ELSE v

\* x + 1 on a number (year++, enrollYear + 1): NaN stays NaN.
JsInc(x) == IF x = NaN THEN NaN ELSE x + 1

----------------------------------------------------------------------------
\* String built-ins.

Digits == <<"0", "1", "2", "3", "4", "5", "6", "7", "8", "9">>

IsDigit(c) == \E i \in 1..10 : Digits[i] = c

DigitVal(c) == (CHOOSE i \in 1..10 : Digits[i] = c) - 1

RECURSIVE SkipSpaces(_, _)
SkipSpaces(s, i) ==
    IF i <= Len(s) /\ s[i] = " " THEN SkipSpaces(s, i + 1) ELSE i

RECURSIVE DigitsEnd(_, _)
DigitsEnd(s, i) ==
    IF i <= Len(s) /\ IsDigit(s[i]) THEN DigitsEnd(s, i + 1) ELSE i

RECURSIVE DecValue(_, _, _)
DecValue(s, i, j) ==
    IF j <= i THEN 0 ELSE DecValue(s, i, j - 1) * 10 + DigitVal(s[j - 1])

\* parseInt(s, 10): leading blanks, an optional sign, then the longest run
\* of decimal digits; NaN when that run is empty.  Text after it is ignored.
parseInt(s) ==
    LET a == SkipSpaces(s, 1)
        signed == a <= Len(s) /\ s[a] \in {"-", "+"}
        b == IF signed THEN a + 1 ELSE a
        e == DigitsEnd(s, b)
    IN  IF e = b THEN NaN
        ELSE IF signed /\ s[a] = "-" THEN 0 - DecValue(s, b, e)
        ELSE DecValue(s, b, e)

\* s.split(c) for a one-character separator.
RECURSIVE Split(_, _)
Split(s, c) ==
    IF \A i \in 1..Len(s) : s[i] # c THEN <<s>>
    ELSE LET i == CHOOSE k \in 1..Len(s) :
                     s[k] = c /\ \A j \in 1..(k - 1) : s[j] # c
         IN  <<SubSeq(s, 1, i - 1)>> \o Split(SubSeq(s, i + 1, Len(s)), c)

IsSep(c) == c \in {" ", "."}

RECURSIVE SepEnd(_, _)
SepEnd(s, i) == IF i <= Len(s) /\ IsSep(s[i]) THEN SepEnd(s, i + 1) ELSE i

\* s.split(/[ .]+/): the pieces between maximal runs of blanks and periods
\* (an empty piece where the text starts or ends with such a run).
RECURSIVE SplitSep(_)
SplitSep(s) ==
    IF \A i \in 1..Len(s) : ~IsSep(s[i]) THEN <<s>>
    ELSE LET i == CHOOSE k \in 1..Len(s) :
                     IsSep(s[k]) /\ \A j \in 1..(k - 1) : ~IsSep(s[j])
             e == SepEnd(s, i)
         IN  <<SubSeq(s, 1, i - 1)>> \o SplitSep(SubSeq(s, e, Len(s)))

\* s.trim()
RECURSIVE Trim(_)
Trim(s) ==
    IF Len(s) > 0 /\ s[1] = " " THEN Trim(Tail(s))
    ELSE IF Len(s) > 0 /\ s[Len(s)] = " " THEN Trim(SubSeq(s, 1, Len(s) - 1))
    ELSE s

UpperChars == <<"A", "B", "C", "D", "E", "F", "G", "H", "I", "J", "K", "L", "M",
                "N", "O", "P", "Q", "R", "S", "T", "U", "V", "W", "X", "Y", "Z">>
LowerChars == <<"a", "b", "c", "d", "e", "f", "g", "h", "i", "j", "k", "l", "m",
                "n", "o", "p", "q", "r", "s", "t", "u", "v", "w", "x", "y", "z">>

\* s.toLowerCase()
toLowerCase(s) ==
    [i \in 1..Len(s) |->
        IF \E k \in 1..26 : UpperChars[k] = s[i]
        THEN LowerChars[CHOOSE k \in 1..26 : UpperChars[k] = s[i]]
        ELSE s[i]]

\* s.startsWith(p)
startsWith(s, p) == Len(p) <= Len(s) /\ SubSeq(s, 1, Len(p)) = p

\* Where /\(([^)]+)\)/ matches in s: the places i of a "(" whose next ")" is
\* at least two characters on.
ParenStarts(s) ==
    {i \in 1..Len(s) :
        /\ s[i] = "("
        /\ \E j \in (i + 2)..Len(s) :
              s[j] = ")" /\ \A k \in (i + 1)..(j - 1) : s[k] # ")"}

\* sessionStr.match(/\(([^)]+)\)/) found something.
HasMatch(s) == ParenStarts(s) # {}

\* match[1]: the group of the leftmost match.
MatchGroup(s) ==
    LET i == CHOOSE a \in ParenStarts(s) : \A b \in ParenStarts(s) : a <= b
        j == CHOOSE c \in (i + 2)..Len(s) :
                 s[c] = ")" /\ \A k \in (i + 1)..(c - 1) : s[k] # ")"
    IN  SubSeq(s, i + 1, j - 1)

----------------------------------------------------------------------------
\* The month tables.

January == <<"J", "a", "n", "u", "a", "r", "y">>
February == <<"F", "e", "b", "r", "u", "a", "r", "y">>
March == <<"M", "a", "r", "c", "h">>
April == <<"A", "p", "r", "i", "l">>
May == <<"M", "a", "y">>
June == <<"J", "u", "n", "e">>
July == <<"J", "u", "l", "y">>
August == <<"A", "u", "g", "u", "s", "t">>
September == <<"S", "e", "p", "t", "e", "m", "b", "e", "r">>
October == <<"O", "c", "t", "o", "b", "e", "r">>
November == <<"N", "o", "v", "e", "m", "b", "e", "r">>
December == <<"D", "e", "c", "e", "m", "b", "e", "r">>

\* const monthNames = { January: 1, ... }, as its entries.
monthNamesEntries ==
    { <<January, 1>>, <<February, 2>>, <<March, 3>>, <<April, 4>>,
      <<May, 5>>, <<June, 6>>, <<July, 7>>, <<August, 8>>,
      <<September, 9>>, <<October, 10>>, <<November, 11>>, <<December, 12>> }

\* monthNames[token]: the month number, or undefined (NaN as a number, and
\* falsy like it) for any other text.
monthNames(token) ==
    IF \E e \in monthNamesEntries : e[1] = token
    THEN (CHOOSE e \in monthNamesEntries : e[1] = token)[2]
    ELSE NaN

\* const monthNameStrings = ["", "January", ...]; JavaScript index k is
\* element k + 1 here.
monthNameStringsArray ==
    << <<>>, January, February, March, April, May, June,
       July, August, September, October, November, December >>

\* monthNameStrings[month]: undefined outside indexes 0..12.
monthNameStrings(month) ==
    IF month \in 0..12 THEN monthNameStringsArray[month + 1] ELSE Undefined

----------------------------------------------------------------------------
\* The program's state.

VARIABLES
    variant,                  \* 1: lines 1-297, 2: lines 299-554
    enrollmentGracePeriod,    \* Number(process.argv[3] || 7); 7 in variant 2
    file,                     \* the rows csv-parser delivers, in file order
    pc,                       \* "pass1", "pass2", "done" or "crashed"
    idx1,                     \* the next row of the first read
    idx2,                     \* the next row of the second read
    sessionDays,              \* "year-month" key -> set of days
    blacklistedSessions,      \* array of session strings
    dates,                    \* what the last pass-1 row got from parseSessionDates
    totalEnrollmentRows,
    enrollmentsAfterFirstWeekOfSession,
    monthlyEnrollmentCounts,  \* key -> (class -> count), variant 1 only
    last,                     \* the locals of the last pass-2 row and where it returned
    report                    \* what onComplete printed

vars == <<variant, enrollmentGracePeriod, file, pc, idx1, idx2, sessionDays,
          blacklistedSessions, dates, totalEnrollmentRows,
          enrollmentsAfterFirstWeekOfSession, monthlyEnrollmentCounts, last,
          report>>

----------------------------------------------------------------------------
\* The session calendar.

\* isBlacklisted with the lookup left out.
isBlacklistedNever(sessionStr) == FALSE

\* blacklistedSessions.includes(sessionStr)
isBlacklisted(sessionStr) ==
    \E i \in 1..Len(blacklistedSessions) : blacklistedSessions[i] = sessionStr

\* if (!blacklistedSessions.includes(s)) blacklistedSessions.push(s)
PushBlacklisted(list, sessionStr) ==
    IF \E i \in 1..Len(list) : list[i] = sessionStr
    THEN list
    ELSE Append(list, sessionStr)

\* addSessionDay(year, month, day) on the calendar sd; the key `${year}-${month}`
\* is the pair <<year, month>>.
addSessionDay(sd, year, month, day) ==
    LET key == <<year, month>>
    IN  [k \in DOMAIN sd \cup {key} |->
            IF k = key
            THEN (IF key \in DOMAIN sd THEN sd[key] ELSE {}) \cup {day}
            ELSE sd[k]]

\* getFirstClassDay(month, year) on the calendar sd: days.sort(...)[0].
getFirstClassDayIn(sd, month, year) ==
    LET key == <<year, month>>
    IN  IF key \notin DOMAIN sd \/ sd[key] = {} THEN Null
        ELSE CHOOSE d \in sd[key] : \A e \in sd[key] : d <= e

getFirstClassDay(month, year) == getFirstClassDayIn(sessionDays, month, year)

----------------------------------------------------------------------------
\* parseSessionDates.

\* inner.split(/[ .]+/).filter(token => token.trim() !== '') of the matched
\* group, trimmed.
Tokens(sessionStr) ==
    SelectSeq(SplitSep(Trim(MatchGroup(sessionStr))),
              LAMBDA token : Trim(token) # <<>>)

\* tokens.filter(token => !monthNames[token] && !isNaN(parseInt(token, 10)))
dayTokens(tokens) ==
    SelectSeq(tokens,
              LAMBDA token : monthNames(token) = NaN /\ parseInt(token) # NaN)

\* dayTokens.length <= 3 (variant 1 only)
TooFewDayTokens(tokens) == Len(dayTokens(tokens)) <= 3

\* isConsecutive with the loop started one place late.
isConsecutiveLateStart(dayNumbers) ==
    \A i \in 3..Len(dayNumbers) : dayNumbers[i] = dayNumbers[i - 1] + 1

\* the loop over dayNumbers: each is the one before plus 1
isConsecutive(dayNumbers) ==
    \A i \in 2..Len(dayNumbers) : dayNumbers[i] = dayNumbers[i - 1] + 1

\* The special session pattern: exactly 5 tokens, the first a month, the
\* other 4 day numbers that are consecutive.
IsSpecialPattern(tokens) ==
    /\ Len(tokens) = 5
    /\ monthNames(tokens[1]) # NaN
    /\ LET dayNumbers == [i \in 1..4 |-> parseInt(tokens[i + 1])]
       IN  /\ \A i \in 1..4 : dayNumbers[i] # NaN
           /\ isConsecutive(dayNumbers)

\* SessionYear with >= for >.
SessionYearGte(enrollYear, enrollMonth, currentMonth) ==
    IF enrollMonth # NaN /\ currentMonth # NaN /\ enrollMonth >= currentMonth
    THEN JsInc(enrollYear)
    ELSE enrollYear

\* let sessionYear = enrollYear; if (enrollMonth > currentMonth) sessionYear = enrollYear + 1
SessionYear(enrollYear, enrollMonth, currentMonth) ==
    IF JsGt(enrollMonth, currentMonth) THEN JsInc(enrollYear) ELSE enrollYear

\* tokens.forEach(...) from token i on, with the month cursor currentMonth
\* (Null before the first month token): the dates pushed.
RECURSIVE ScanTokens(_, _, _, _, _)
ScanTokens(tokens, i, currentMonth, enrollYear, enrollMonth) ==
    IF i > Len(tokens) THEN <<>>
    ELSE IF monthNames(tokens[i]) # NaN
    THEN ScanTokens(tokens, i + 1, monthNames(tokens[i]), enrollYear, enrollMonth)
    ELSE LET day == parseInt(tokens[i])
         IN  IF day # NaN /\ currentMonth # Null
             THEN << [year |-> SessionYear(enrollYear, enrollMonth, currentMonth),
                      month |-> currentMonth,
                      day |-> day] >>
                  \o ScanTokens(tokens, i + 1, currentMonth, enrollYear, enrollMonth)
             ELSE ScanTokens(tokens, i + 1, currentMonth, enrollYear, enrollMonth)

\* parseSessionDates(sessionStr, enrollYear, enrollMonth) of variant v: the
\* dates returned, and whether the string is pushed on the blacklist.
parseSessionDates(v, sessionStr, enrollYear, enrollMonth) ==
    IF ~HasMatch(sessionStr) THEN [dates |-> <<>>, ignored |-> FALSE]
    ELSE LET tokens == Tokens(sessionStr)
         IN  IF v = 1 /\ TooFewDayTokens(tokens)
             THEN [dates |-> <<>>, ignored |-> TRUE]
             ELSE IF IsSpecialPattern(tokens)
             THEN [dates |-> <<>>, ignored |-> TRUE]
             ELSE [dates |-> ScanTokens(tokens, 1, Null, enrollYear, enrollMonth),
                   ignored |-> FALSE]

\* dates.forEach(({ year, month, day }) => addSessionDay(year, month, day))
RECURSIVE AddAll(_, _)
AddAll(sd, ds) ==
    IF ds = <<>> THEN sd
    ELSE AddAll(addSessionDay(sd, ds[1].year, ds[1].month, ds[1].day), Tail(ds))

----------------------------------------------------------------------------
\* Pass 1: the onRow handler of the first readCSVFile.

\* onRow(row) of pass 1 up to the call of parseSessionDates: what the call
\* returns, or nothing for a row the handler returns on earlier.
Pass1Parse(row) ==
    LET enrollDateStr == row.date
        sessionStr == row.session
        skip == [dates |-> <<>>, ignored |-> FALSE]
    IN  IF Falsy(enrollDateStr) \/ Falsy(sessionStr) THEN skip
        ELSE LET enrollParts == Split(enrollDateStr, "/")
             IN  IF Len(enrollParts) # 3 THEN skip
                 ELSE LET enrollMonth == parseInt(enrollParts[1])
                          enrollYear == parseInt(enrollParts[3])
                      IN  IF enrollMonth = NaN \/ enrollYear = NaN THEN skip
                          ELSE parseSessionDates(variant, sessionStr,
                                                 enrollYear, enrollMonth)

\* The calendar, the blacklist and the dates after onRow(row) of pass 1.
Pass1OnRow(row) ==
    LET r == Pass1Parse(row)
    IN  [sd |-> AddAll(sessionDays, r.dates),
         bl |-> IF r.ignored
                THEN PushBlacklisted(blacklistedSessions, row.session)
                ELSE blacklistedSessions,
         dates |-> r.dates]

\* .on('data', row => onRow(row)) of the first read
Pass1Row ==
    /\ pc = "pass1"
    /\ idx1 <= Len(file)
    /\ LET r == Pass1OnRow(file[idx1])
       IN  /\ sessionDays' = r.sd
           /\ blacklistedSessions' = r.bl
           /\ dates' = r.dates
    /\ idx1' = idx1 + 1
    /\ UNCHANGED <<variant, enrollmentGracePeriod, file, pc, idx2,
                   totalEnrollmentRows, enrollmentsAfterFirstWeekOfSession,
                   monthlyEnrollmentCounts, last, report>>

\* Pass1Complete when the second read is not held back until the first ends.
Pass1CompleteNotAwaited == TRUE

\* The stream emits 'end' after its last 'data'.
Pass1Complete == idx1 > Len(file)

\* .on('end') of the first read resolves the awaited promise, and the second
\* readCSVFile starts.
Pass1End ==
    /\ pc = "pass1"
    /\ Pass1Complete
    /\ pc' = "pass2"
    /\ UNCHANGED <<variant, enrollmentGracePeriod, file, idx1, idx2, sessionDays,
                   blacklistedSessions, dates, totalEnrollmentRows,
                   enrollmentsAfterFirstWeekOfSession, monthlyEnrollmentCounts,
                   last, report>>

----------------------------------------------------------------------------
\* Pass 2: the onRow handler of the second readCSVFile.

\* a + b on numbers
JsAdd(a, b) == IF a = NaN \/ b = NaN THEN NaN ELSE a + b

\* Variant 1 returns when getFirstClassDay gave null; variant 2 has no such
\* check.
SkipsNoFirstClassDay(v, firstClassDay) == v = 1 /\ firstClassDay = Null

\* firstClassDay + enrollmentGracePeriod (variant 1);
\* getFirstClassDay(month, year) + 7 (variant 2, where null + 7 is 7).
firstWeekThreshold(v, firstClassDay) ==
    IF v = 1
    THEN JsAdd(firstClassDay, enrollmentGracePeriod)
    ELSE ToNumber(firstClassDay) + 7

\* IsAfterFirstWeek with >= for >.
IsAfterFirstWeekGte(day, threshold) ==
    day # NaN /\ threshold # NaN /\ day >= threshold

\* day > firstWeekThreshold
IsAfterFirstWeek(day, threshold) == JsGt(day, threshold)

\* row['Class'] || 'Unknown'
Unknown == <<"U", "n", "k", "n", "o", "w", "n">>
ClassCategory(row) == IF Falsy(row.class) THEN Unknown ELSE row.class

\* Where onRow(row) of pass 2 returns (or throws), with its locals; a local
\* not yet assigned is NaN.
Locals(exit, month, day, year, firstClassDay) ==
    [exit |-> exit, month |-> month, day |-> day, year |-> year,
     firstClassDay |-> firstClassDay]

Pass2OnRow(row) ==
    LET enrollDateStr == row.date
        sessionStr == row.session
    IN  IF isBlacklisted(sessionStr) THEN Locals("blacklisted", NaN, NaN, NaN, NaN)
        ELSE IF Falsy(enrollDateStr) \/ Falsy(sessionStr)
        THEN Locals("missing", NaN, NaN, NaN, NaN)
        ELSE
        LET dateParts == Split(enrollDateStr, "/")
        IN  IF Len(dateParts) # 3 THEN Locals("parts", NaN, NaN, NaN, NaN)
            ELSE
            LET month == parseInt(dateParts[1])
                day == parseInt(dateParts[2])
                year == parseInt(dateParts[3])
            IN  IF month = NaN \/ day = NaN THEN Locals("nan", month, day, year, NaN)
                ELSE
                LET enrollMonthName == monthNameStrings(month)
                IN  \* undefined.toLowerCase() is a TypeError
                    IF enrollMonthName = Undefined
                    THEN Locals("threw", month, day, year, NaN)
                    ELSE IF ~startsWith(toLowerCase(sessionStr),
                                        toLowerCase(enrollMonthName))
                    THEN Locals("prefix", month, day, year, NaN)
                    ELSE
                    LET sessionMonthIndex == monthNames(enrollMonthName)
                        sessionYear == IF JsGt(month, sessionMonthIndex)
                                       THEN JsInc(year) ELSE year
                        firstClassDay == getFirstClassDay(month, sessionYear)
                    IN  IF SkipsNoFirstClassDay(variant, firstClassDay)
                        THEN Locals("nofirst", month, day, sessionYear, firstClassDay)
                        ELSE IF IsAfterFirstWeek(
                                    day, firstWeekThreshold(variant, firstClassDay))
                        THEN Locals("counted", month, day, sessionYear, firstClassDay)
                        ELSE Locals("notafter", month, day, sessionYear, firstClassDay)

\* IncrementCount that starts the month's object afresh on every count.
IncrementCountFresh(counts, key, classCategory) ==
    [k \in DOMAIN counts \cup {key} |->
        IF k = key THEN [c \in {classCategory} |-> 1] ELSE counts[k]]

\* monthlyEnrollmentCounts[key][classCategory]++, creating what is missing
IncrementCount(counts, key, classCategory) ==
    LET old == IF key \in DOMAIN counts THEN counts[key] ELSE <<>>
        n == IF classCategory \in DOMAIN old THEN old[classCategory] ELSE 0
        new == [c \in DOMAIN old \cup {classCategory} |->
                   IF c = classCategory THEN n + 1 ELSE old[c]]
    IN  [k \in DOMAIN counts \cup {key} |-> IF k = key THEN new ELSE counts[k]]

\* .on('data', row => onRow(row)) of the second read.  A throw inside the
\* listener is an uncaught exception: the process ends without a report.
Pass2Row ==
    /\ pc = "pass2"
    /\ idx2 <= Len(file)
    /\ totalEnrollmentRows' = totalEnrollmentRows + 1
    /\ LET row == file[idx2]
           l == Pass2OnRow(row)
       IN  /\ last' = l
           /\ pc' = IF l.exit = "threw" THEN "crashed" ELSE pc
           /\ enrollmentsAfterFirstWeekOfSession' =
                 IF l.exit = "counted"
                 THEN enrollmentsAfterFirstWeekOfSession + 1
                 ELSE enrollmentsAfterFirstWeekOfSession
           /\ monthlyEnrollmentCounts' =
                 IF l.exit = "counted" /\ variant = 1
                 THEN IncrementCount(monthlyEnrollmentCounts,
                                     <<l.year, l.month>>, ClassCategory(row))
                 ELSE monthlyEnrollmentCounts
    /\ idx2' = idx2 + 1
    /\ UNCHANGED <<variant, enrollmentGracePeriod, file, idx1, sessionDays,
                   blacklistedSessions, dates, report>>

\* (after / total) * 100: with no row counted, 0 / 0 is NaN; otherwise the percentage in
\* hundredths, rounded as toFixed(2) prints it (variant 2 prints the
\* unrounded number, of which this keeps two decimals).
Percentage(after, total) ==
    IF total = 0 THEN NaN
    ELSE (after * 20000 + total) \div (2 * total)

\* .on('end') of the second read: onComplete prints the report.
Pass2End ==
    /\ pc = "pass2"
    /\ idx2 > Len(file)
    /\ report' = [printed |-> TRUE,
                  after |-> enrollmentsAfterFirstWeekOfSession,
                  total |-> totalEnrollmentRows,
                  decimal |-> Percentage(enrollmentsAfterFirstWeekOfSession,
                                         totalEnrollmentRows)]
    /\ pc' = "done"
    /\ UNCHANGED <<variant, enrollmentGracePeriod, file, idx1, idx2, sessionDays,
                   blacklistedSessions, dates, totalEnrollmentRows,
                   enrollmentsAfterFirstWeekOfSession, monthlyEnrollmentCounts,
                   last>>

Next == Pass1Row \/ Pass1End \/ Pass2Row \/ Pass2End

----------------------------------------------------------------------------
\* The inputs: the command line and the CSV file.

\* Number(s) for the texts used as process.argv[3]: an optionally signed run
\* of digits is its value, anything else NaN.
NumberOf(s) ==
    LET b == IF Len(s) > 0 /\ s[1] \in {"-", "+"} THEN 2 ELSE 1
    IN  IF b <= Len(s) /\ DigitsEnd(s, b) = Len(s) + 1 THEN parseInt(s) ELSE NaN

\* process.argv[3]: absent, "8" or "x"
GraceArgs == {Undefined, <<"8">>, <<"x">>}

\* Number(process.argv[3] || 7)
GracePeriodOf(arg) == IF Falsy(arg) THEN 7 ELSE NumberOf(arg)

\* Tokens written one blank apart.
RECURSIVE JoinTokens(_)
JoinTokens(tokens) ==
    IF tokens = <<>> THEN <<>>
    ELSE IF Len(tokens) = 1 THEN tokens[1]
    ELSE tokens[1] \o <<" ">> \o JoinTokens(Tail(tokens))

\* A Session cell: a title and a parenthesized schedule.
SessionText(title, tokens) == title \o <<" ", "(">> \o JoinTokens(tokens) \o <<")">>

Row(date, session, class) == [date |-> date, session |-> session, class |-> class]

ClassA == <<"A">>
ClassB == <<"B">>
Date_5_10_2024 == <<"5", "/", "1", "0", "/", "2", "0", "2", "4">>
Date_5_11_2024 == <<"5", "/", "1", "1", "/", "2", "0", "2", "4">>
Date_5_20_2024 == <<"5", "/", "2", "0", "/", "2", "0", "2", "4">>
Date_6_20_2024 == <<"6", "/", "2", "0", "/", "2", "0", "2", "4">>
Date_5_20_2025 == <<"5", "/", "2", "0", "/", "2", "0", "2", "5">>
Date_13_20_2024 == <<"1", "3", "/", "2", "0", "/", "2", "0", "2", "4">>
Date_0_20_2024 == <<"0", "/", "2", "0", "/", "2", "0", "2", "4">>
Date_5_2024 == <<"5", "/", "2", "0", "2", "4">>
Date_x_10_2024 == <<"x", "/", "1", "0", "/", "2", "0", "2", "4">>
Date_5_x_2024 == <<"5", "/", "x", "/", "2", "0", "2", "4">>

\* "May (May 3 10 17 24)": a weekly schedule whose first class day is 3
SessionWeekly == SessionText(May, <<May, <<"3">>, <<"1", "0">>, <<"1", "7">>, <<"2", "4">>>>)
\* the same schedule under a title in capitals
SessionWeeklyCaps == SessionText(<<"M", "A", "Y">>, <<May, <<"3">>, <<"1", "0">>, <<"1", "7">>, <<"2", "4">>>>)
\* "May (May 5 6 7 8)": the 5-token block of consecutive days
SessionBlock == SessionText(May, <<May, <<"5">>, <<"6">>, <<"7">>, <<"8">>>>)
\* "May (May 5 6 7 9)": 5 tokens, not consecutive
SessionLoose == SessionText(May, <<May, <<"5">>, <<"6">>, <<"7">>, <<"9">>>>)
\* "May (May 5 6)": two day tokens
SessionShort == SessionText(May, <<May, <<"5">>, <<"6">>>>)
\* "May swim": no parenthesis
SessionPlain == May \o <<" ", "s", "w", "i", "m">>
\* "June (June 1 8 15 22)"
SessionJune == SessionText(June, <<June, <<"1">>, <<"8">>, <<"1", "5">>, <<"2", "2">>>>)

\* The rows a file is made of.
Rows ==
    { Row(Date_5_10_2024, SessionWeekly, ClassA),
      Row(Date_5_11_2024, SessionWeeklyCaps, Undefined),
      Row(Date_5_11_2024, SessionLoose, ClassB),
      Row(Date_5_20_2024, SessionBlock, ClassA),
      Row(Date_5_20_2024, SessionShort, ClassA),
      Row(Date_5_20_2024, SessionPlain, <<>>),
      Row(Date_6_20_2024, SessionWeekly, ClassA),
      Row(Date_6_20_2024, SessionJune, ClassB),
      Row(Date_5_20_2025, SessionPlain, ClassA),
      Row(Date_13_20_2024, SessionWeekly, ClassA),
      Row(Date_0_20_2024, SessionWeekly, ClassA),
      Row(Undefined, SessionWeekly, ClassA),
      Row(Date_5_10_2024, Undefined, ClassA),
      Row(Date_5_2024, SessionWeekly, ClassA),
      Row(Date_x_10_2024, SessionWeekly, ClassA),
      Row(Date_5_x_2024, SessionWeekly, ClassA) }

\* The files of at most MaxRows rows.
Files == UNION {[1..n -> Rows] : n \in 0..MaxRows}

EmptyMap == [k \in {} |-> {}]

\* The state when the script starts on the file f.
Start(f) ==
    /\ file = f
    /\ pc = "pass1"
    /\ idx1 = 1
    /\ idx2 = 1
    /\ sessionDays = EmptyMap
    /\ blacklistedSessions = <<>>
    /\ dates = <<>>
    /\ totalEnrollmentRows = 0
    /\ enrollmentsAfterFirstWeekOfSession = 0
    /\ monthlyEnrollmentCounts = EmptyMap
    /\ last = Locals("none", NaN, NaN, NaN, NaN)
    /\ report = [printed |-> FALSE, after |-> 0, total |-> 0, decimal |-> 0]

Init ==
    /\ variant \in {1, 2}
    /\ enrollmentGracePeriod \in
          IF variant = 1 THEN {GracePeriodOf(a) : a \in GraceArgs} ELSE {7}
    /\ \E f \in Files : Start(f)

Spec == Init /\ [][Next]_vars

----------------------------------------------------------------------------
\* The session resolver on its own: one-row files whose schedule is any
\* sequence of at most MaxTokens tokens, read by pass 1.

TokenWords == {May, June, <<"5">>, <<"6">>, <<"7">>, <<"8">>, <<"x">>}

TokenLists == UNION {[1..n -> TokenWords] : n \in 0..MaxTokens}

\* Longer schedules: two months with more than 3 days, a day before the
\* first month, an unrecognized word among the days.
LongTokenLists ==
    { <<<<"7">>, June, <<"5">>, <<"6">>, May, <<"7">>, <<"8">>>>,
      <<May, <<"5">>, <<"6">>, <<"x">>, <<"7">>, June, <<"8">>, <<"5">>>>,
      <<<<"5">>, <<"6">>, <<"7">>, <<"8">>, <<"x">>, <<"5">>>> }

\* The row is enrolled in June 2024: a May session falls in the next year, a
\* June session in the same.
ResolverInit ==
    /\ variant \in {1, 2}
    /\ enrollmentGracePeriod = 7
    /\ \E tokens \in TokenLists \cup LongTokenLists :
          Start(<<Row(Date_6_20_2024, SessionText(May, tokens), Undefined)>>)

ResolverNext == Pass1Row

ResolverSpec == ResolverInit /\ [][ResolverNext]_vars

----------------------------------------------------------------------------
\* The final report's derived totals.

RECURSIVE SumOf(_, _)
SumOf(f, D) ==
    IF D = {} THEN 0
    ELSE LET x == CHOOSE y \in D : TRUE IN f[x] + SumOf(f, D \ {x})

\* Object.entries(monthlyEnrollmentCounts).map(([key, classCounts]) =>
\*     ({ key, total: Object.values(classCounts).reduce((a, b) => a + b, 0) }))
overallMonthlyTotals(counts) ==
    [k \in DOMAIN counts |-> SumOf(counts[k], DOMAIN counts[k])]

----------------------------------------------------------------------------
\* Properties.

\* The grace period a pass-2 row is compared with.
GraceOf == IF variant = 1 THEN enrollmentGracePeriod ELSE 7

\* A pass-2 row has just been handled.
Pass2Step == idx2' = idx2 + 1

\* C1: a pass-2 row that reaches the threshold comparison with first class
\* day F and grace period G increments the after-grace-period counter if and
\* only if its enrollment day is strictly greater than F + G.
C1_StrictlyAfterThreshold ==
    [][ (/\ Pass2Step
         /\ last'.exit \in {"counted", "notafter"}
         /\ last'.firstClassDay # Null
         /\ GraceOf # NaN)
        => /\ (enrollmentsAfterFirstWeekOfSession'
                  = enrollmentsAfterFirstWeekOfSession + 1)
              <=> (last'.day > last'.firstClassDay + GraceOf)
           /\ enrollmentsAfterFirstWeekOfSession'
                 \in {enrollmentsAfterFirstWeekOfSession,
                      enrollmentsAfterFirstWeekOfSession + 1} ]_vars

\* With G = 7 and F = 3: the row of day 10 was not counted, the row of day 11
\* has just been counted.
C1_Witness ==
    /\ idx2 = 3
    /\ GraceOf = 7
    /\ file[1] = Row(Date_5_10_2024, SessionWeekly, ClassA)
    /\ last.exit = "counted"
    /\ last.day = 11
    /\ last.firstClassDay = 3
    /\ enrollmentsAfterFirstWeekOfSession = 1
    /\ totalEnrollmentRows = 2

\* C2: a pass-2 row whose first-class-day query finds no recorded day is
\* skipped: the after-grace-period counter and the monthly tally stay as they
\* are and nothing is thrown.
C2_NoFirstClassDaySkips ==
    [][ (Pass2Step /\ last'.firstClassDay = Null)
        => /\ enrollmentsAfterFirstWeekOfSession'
                 = enrollmentsAfterFirstWeekOfSession
           /\ monthlyEnrollmentCounts' = monthlyEnrollmentCounts
           /\ pc' = "pass2" ]_vars

\* C3: on a file without data rows the report never prints a percentage
\* computed by dividing by zero rows.
C3_ZeroRowsNoNaN ==
    Len(file) = 0 => ~(report.printed /\ report.decimal = NaN)

\* A token that is no month name and parses as an integer.
IsMonthToken(token) == \E e \in monthNamesEntries : e[1] = token
IsDayToken(token) == ~IsMonthToken(token) /\ parseInt(token) # NaN

\* The tokens of a session string's parenthesized fragment.
FragmentTokens(sessionStr) ==
    IF HasMatch(sessionStr) THEN Tokens(sessionStr) ELSE <<>>

DayTokenPlaces(tokens) == {i \in 1..Len(tokens) : IsDayToken(tokens[i])}

\* C4: a session string with a parenthesized fragment of at most 3 day-like
\* tokens is put on the blacklist and yields no dates, so its row adds no day
\* to the calendar.
C4_FewDayTokensIgnored ==
    (/\ idx1 = 2
     /\ HasMatch(file[1].session)
     /\ Cardinality(DayTokenPlaces(Tokens(file[1].session))) <= 3)
    => /\ isBlacklisted(file[1].session)
       /\ dates = <<>>
       /\ sessionDays = EmptyMap

\* C5: a 5-token fragment of a month and 4 integers is blacklisted and yields
\* no dates when each integer is one more than the one before; otherwise it
\* is not blacklisted and yields one date per day token.
C5_FiveTokenBlock ==
    idx1 = 2 =>
        LET s == file[1].session
            tokens == FragmentTokens(s)
        IN  (/\ Len(tokens) = 5
             /\ IsMonthToken(tokens[1])
             /\ \A i \in 2..5 : parseInt(tokens[i]) # NaN)
            => IF \A i \in 2..4 : parseInt(tokens[i + 1]) - parseInt(tokens[i]) = 1
               THEN isBlacklisted(s) /\ dates = <<>>
               ELSE /\ ~isBlacklisted(s)
                    /\ Len(dates) = 4
                    /\ \A i \in 1..4 :
                          /\ dates[i].day = parseInt(tokens[i + 1])
                          /\ dates[i].month = monthNames(tokens[1])

\* "May 5 6 7 8" has been read and is on the blacklist.
C5_Witness ==
    /\ idx1 = 2
    /\ FragmentTokens(file[1].session) = <<May, <<"5">>, <<"6">>, <<"7">>, <<"8">>>>
    /\ isBlacklisted(file[1].session)
    /\ dates = <<>>

\* The places of the day tokens that follow some month token.
EmittingPlaces(tokens) ==
    {i \in DayTokenPlaces(tokens) : \E j \in 1..(i - 1) : IsMonthToken(tokens[j])}

\* The month number of the last month token before place i.
MonthBefore(tokens, i) ==
    LET j == CHOOSE a \in 1..(i - 1) :
                 /\ IsMonthToken(tokens[a])
                 /\ \A b \in (a + 1)..(i - 1) : ~IsMonthToken(tokens[b])
    IN  (CHOOSE e \in monthNamesEntries : e[1] = tokens[j])[2]

\* The enrollment month and year written in a row's Enroll Date.
EnrollMonthOf(row) == parseInt(Split(row.date, "/")[1])
EnrollYearOf(row) == parseInt(Split(row.date, "/")[3])

C7_TotalCountsEveryRow ==
    [][ /\ Pass2Step => totalEnrollmentRows' = totalEnrollmentRows + 1
        /\ ~Pass2Step => totalEnrollmentRows' = totalEnrollmentRows
        /\ report'.printed => report'.total = Len(file)
        /\ (Pass2Step /\ \E i \in 1..Len(blacklistedSessions) :
                            blacklistedSessions[i] = file[idx2].session)
           => /\ enrollmentsAfterFirstWeekOfSession'
                    = enrollmentsAfterFirstWeekOfSession
              /\ monthlyEnrollmentCounts' = monthlyEnrollmentCounts ]_vars

\* The report of a two-row file: a row whose enrollment day is no number, then
\* a row of a blacklisted session enrolled late in a month that has class days.
C7_Witness ==
    /\ report.printed
    /\ report.total = 2
    /\ Len(file) = 2
    /\ file[1] = Row(Date_5_x_2024, SessionWeekly, ClassA)
    /\ file[2] = Row(Date_5_20_2024, SessionBlock, ClassA)
    /\ getFirstClassDay(5, 2024) = 3
    /\ last.exit = "blacklisted"

\* The days pass 1 records for (year, month) over all rows of the file.
DaysOfFile(year, month) ==
    UNION { LET ds == Pass1Parse(file[i]).dates
            IN  { ds[k].day : k \in { n \in 1..Len(ds) :
                                        ds[n].year = year /\ ds[n].month = month } } :
            i \in 1..Len(file) }

\* C8: no pass-2 row is handled before pass 1 has handled every row; during
\* pass 2 the calendar and the blacklist do not change; the first class day a
\* pass-2 row is compared with is the least day all rows of the file record
\* for its (year, month).
C8_PassOneBeforePassTwo ==
    [][ /\ Pass2Step => idx1 > Len(file)
        /\ pc = "pass2" => /\ sessionDays' = sessionDays
                           /\ blacklistedSessions' = blacklistedSessions
        /\ (Pass2Step /\ last'.exit \in {"nofirst", "counted", "notafter"})
           => LET days == DaysOfFile(last'.year, last'.month)
              IN  IF days = {} THEN last'.firstClassDay = Null
                  ELSE /\ last'.firstClassDay \in days
                       /\ \A d \in days : last'.firstClassDay <= d ]_vars

\* The first row's own session starts on day 5; it has been classified
\* against day 3, which only the second row records.
C8_Witness ==
    /\ idx2 = 2
    /\ Len(file) = 2
    /\ file[1] = Row(Date_5_11_2024, SessionLoose, ClassB)
    /\ file[2].session = SessionWeekly
    /\ last.firstClassDay = 3
    /\ last.exit = "counted"

IsMalformed(row) ==
    \/ Falsy(row.date)
    \/ Falsy(row.session)
    \/ Len(Split(row.date, "/")) # 3
    \/ parseInt(Split(row.date, "/")[1]) = NaN
    \/ parseInt(Split(row.date, "/")[2]) = NaN
    \/ parseInt(Split(row.date, "/")[1]) \notin 1..12

\* C10: pass 2 handles a malformed row without raising an error: the row
\* leaves the after-grace-period counter and the monthly tally as they are and
\* the run goes on.
C10_MalformedRowsSkipped ==
    [][ (Pass2Step /\ IsMalformed(file[idx2]))
        => /\ pc' = "pass2"
           /\ enrollmentsAfterFirstWeekOfSession'
                 = enrollmentsAfterFirstWeekOfSession
           /\ monthlyEnrollmentCounts' = monthlyEnrollmentCounts ]_vars

\* A pass-2 row has just passed the month-prefix filter.
PassedPrefixFilter == Pass2Step /\ last'.exit \in {"nofirst", "counted", "notafter"}

\* monthNames[monthNameStrings[month]] for the month written in a row.
SessionMonthIndexOf(row) == monthNames(monthNameStrings(EnrollMonthOf(row)))

\* C11: for every pass-2 row that passes the month-prefix filter the session
\* month index equals the enrollment month, the derived session year is the
\* enrollment year, and the first class day is the one recorded under
\* (enrollment year, enrollment month).
C11_SessionMonthIsEnrollMonth ==
    [][ PassedPrefixFilter
        => /\ SessionMonthIndexOf(file[idx2]) = EnrollMonthOf(file[idx2])
           /\ last'.year = EnrollYearOf(file[idx2])
           /\ last'.firstClassDay =
                 getFirstClassDayIn(sessionDays, EnrollMonthOf(file[idx2]),
                                    EnrollYearOf(file[idx2])) ]_vars

\* The part of C11 about the year alone: a row that passes the filter is
\* looked up under its own enrollment year and month, so days recorded under
\* a later year are read only by rows enrolled in that year.
C11_YearNeverAdvanced ==
    [][ PassedPrefixFilter
        => /\ last'.year = EnrollYearOf(file[idx2])
           /\ last'.month = EnrollMonthOf(file[idx2])
           /\ last'.firstClassDay =
                 getFirstClassDayIn(sessionDays, EnrollMonthOf(file[idx2]),
                                    EnrollYearOf(file[idx2])) ]_vars

\* A row enrolled in May 2025 has been classified against day 3, which a row
\* enrolled in June 2024 for a May session recorded under 2025.
C11_LaterYearRead ==
    /\ idx2 = 3
    /\ file[1] = Row(Date_6_20_2024, SessionWeekly, ClassA)
    /\ file[2] = Row(Date_5_20_2025, SessionPlain, ClassA)
    /\ last.year = 2025
    /\ last.firstClassDay = 3

====
